---- MODULE Spec2Model ----
(***************************************************************************)
(* Voice capture controller of the dashboard: the React hook               *)
(* useAudioCapture (src/web/src/components/providers.tsx, lines 34-131).   *)
(*                                                                         *)
(* The hook keeps three refs to the capture device (media stream, audio    *)
(* context, script processor), a ref to the list of captured frames, and   *)
(* two pieces of React state (isRecording, lastResult).  Its callbacks     *)
(* start / finish are closures over the value isRecording had at the last  *)
(* render; start() suspends once, at `await getUserMedia`.                 *)
(*                                                                         *)
(* Every call of getUserMedia that is granted yields a fresh device triple *)
(* (stream k, context k, processor k), k being the number of the start()   *)
(* call.  A sample is one of the strings in Samples: "0" is 0.0 (the value *)
(* a new Float32Array is filled with), "x" a finite non-zero value, "NaN"  *)
(* a non-finite value.                                                     *)
(*                                                                         *)
(* History variables (not state of the hook): ret is the outcome of the    *)
(* last call, arrived the samples delivered since the frame list was last  *)
(* opened, bufferSrcs the devices that delivered them, abandoned whether   *)
(* the frame list holds chunks of a session ended by stop().               *)
(*                                                                         *)
(* Voice enrollment and verification: the dashboard handlers               *)
(* handleVoiceEnrollment / handleVoiceVerification (src/unnamed/part_000,  *)
(* lines 233-304) and the routes POST /api/voice/register and              *)
(* POST /api/voice/verify (src/web/src/app/api/voice).  The library        *)
(* functions storeVoiceProfile / verifyVoiceProfile (lib/voice) are not    *)
(* part of the sources and follow sections 4.3 and 4.4 of the              *)
(* specification.  A threshold is a number of hundredths; a similarity is  *)
(* the exact cosine num / sqrt(den2).  SpecVoice treats a whole recording  *)
(* session as the one step that publishes its result; Spec is the capture  *)
(* hook alone.  SpecVoice lets one request be in flight at a time;         *)
(* SpecRace lets the dashboard have up to MaxInFlight requests in flight.  *)
(***************************************************************************)
EXTENDS Integers, Sequences, FiniteSets, TLC

\* ---- bounds of the model ----
MaxInFlight == 2
\* number of requests the dashboard may have in flight at once (SpecRace)
MaxStarts == 2
\* number of start() calls issued in one run
MaxFrames == 2
\* number of chunks the frame list may hold
BufferSize == 1
\* samples per chunk (stands for the 4096 of createScriptProcessor)

Samples == {"0", "x", "NaN"}
Ids == 1..MaxStarts
Null == 0
NoResult == [set |-> FALSE, vector |-> <<>>, raw |-> <<>>]

VARIABLES
  isRecording,
  renderedIsRecording,
  mediaStreamRef,
  audioContextRef,
  processorRef,
  framesRef,
  lastResult,
  liveStreams,
  openContexts,
  connectedProcessors,
  pendingStarts,
  nextId,
  ret,
  arrived,
  bufferSrcs,
  abandoned,
  voiceEnrollmentStatus,
  voiceVerification,
  profiles,
  inflight

vars == <<isRecording, renderedIsRecording, mediaStreamRef, audioContextRef,
          processorRef, framesRef, lastResult, liveStreams, openContexts,
          connectedProcessors, pendingStarts, nextId, ret, arrived,
          bufferSrcs, abandoned, voiceEnrollmentStatus, voiceVerification,
          profiles, inflight>>

refs == <<mediaStreamRef, audioContextRef, processorRef>>
devices == <<liveStreams, openContexts, connectedProcessors>>
ghosts == <<arrived, bufferSrcs, abandoned>>
\* the dashboard, the two voice routes and the profile table
voice == <<voiceEnrollmentStatus, voiceVerification, profiles, inflight>>
\* the capture hook apart from its published result
capture == <<isRecording, renderedIsRecording, refs, framesRef, devices,
             pendingStarts, nextId, ret, ghosts>>

\* ---- pure helpers ----
IsFinite(s) == s # "NaN"

\* The chunks a processor may deliver: BufferSize samples, the first one any
\* sample and the others 0.0.
Chunk(first) == [i \in 1..BufferSize |-> IF i = 1 THEN first ELSE "0"]

Chunks == {Chunk(first) : first \in Samples}

RECURSIVE TotalLength(_)
TotalLength(frames) ==
  IF frames = <<>> THEN 0
  ELSE Len(Head(frames)) + TotalLength(Tail(frames))

Zeros(n) == [i \in 1..n |-> "0"]

SetAt(arr, frame, offset) ==
  [i \in 1..Len(arr) |->
     IF i > offset /\ i <= offset + Len(frame) THEN frame[i - offset] ELSE arr[i]]

RECURSIVE Fill(_, _, _, _)
Fill(frames, k, arr, offset) ==
  IF k > Len(frames) THEN arr
  ELSE Fill(frames, k + 1, SetAt(arr, frames[k], offset),
            offset + Len(frames[k]))

RECURSIVE FillNoAdvance(_, _, _, _)
FillNoAdvance(frames, k, arr, offset) ==
  IF k > Len(frames) THEN arr
  ELSE FillNoAdvance(frames, k + 1, SetAt(arr, frames[k], offset), offset)

AssembleNoAdvance(frames) == FillNoAdvance(frames, 1, Zeros(TotalLength(frames)), 0)

Assemble(frames) == Fill(frames, 1, Zeros(TotalLength(frames)), 0)

Count(w, s) == Cardinality({i \in 1..Len(w) : w[i] = s})

\* Feature extraction (lib/audio/voiceprint is not part of the sources):
\* a zero-length waveform fails with EmptyCaptureError, a computation that
\* would yield a non-finite component fails with a typed error, otherwise a
\* vector that is a function of the waveform alone is returned.
computeVoicePrint(w) ==
  IF Len(w) = 0 THEN [ok |-> FALSE, error |-> "EmptyCaptureError", vector |-> <<>>]
  ELSE IF \E i \in 1..Len(w) : ~IsFinite(w[i])
    THEN [ok |-> FALSE, error |-> "NonFiniteFeatureError", vector |-> <<>>]
  ELSE [ok |-> TRUE, error |-> "none", vector |-> <<Count(w, "x"), Count(w, "0")>>]

\* ---- voice routes: constants and input sets ----
Unit == 100
DefaultThreshold == 85
DefaultModelVersion == "mfcc-v1"
DashboardModelVersion == "atlas-mfcc-v1"
KnownContacts == {"c1"}
ContactIds == KnownContacts \cup {"c0"}
RaceWaveforms == {<<"x">>, <<"x", "0">>}
ClientVectors == {<<1>>, <<1, 0>>, <<0, 1>>, <<0, 0>>}
ClientThresholds == {0 - 1, 50, Unit + 1}
Waveforms == {<<"x">>, <<"x", "0">>, <<"0", "x", "x">>}

Some(v) == [has |-> TRUE, val |-> v]
NoString == [has |-> FALSE, val |-> ""]
NoVector == [has |-> FALSE, val |-> <<>>]
NoThreshold == [has |-> FALSE, val |-> 0]
NoSimilarity == [num |-> 0, den2 |-> 1]
NoVerification == [set |-> FALSE, similarity |-> NoSimilarity, threshold |-> 0,
                   verified |-> FALSE]
NoProfile == [contactId |-> "", vector |-> <<>>, modelVersion |-> "", raw |-> <<>>]
NoResponse == [status |-> 0, error |-> "", profile |-> NoProfile,
               result |-> NoVerification, core |-> "none"]

Body(contactId, vector, threshold, modelVersion) ==
  [contactId |-> contactId, vector |-> vector, threshold |-> threshold,
   modelVersion |-> modelVersion]

\* the bodies an API client may post to the register route
ClientRegisterBodies ==
  {Body(Some(c), v, NoThreshold, m) :
     c \in ContactIds,
     v \in {NoVector} \cup {Some(x) : x \in ClientVectors},
     m \in {NoString}}

\* the bodies an API client may post to the verify route
ClientVerifyBodies ==
  {Body(Some(c), v, t, NoString) :
     c \in ContactIds,
     v \in {NoVector} \cup {Some(x) : x \in ClientVectors},
     t \in {NoThreshold} \cup {Some(x) : x \in ClientThresholds}}

\* the frame lists a recording session may end with
Ret(op, outcome, error) == [op |-> op, outcome |-> outcome, error |-> error]

\* ---- initial state: the hook after its first render ----
Init ==
  /\ isRecording = FALSE
  /\ renderedIsRecording = FALSE
  /\ mediaStreamRef = Null
  /\ audioContextRef = Null
  /\ processorRef = Null
  /\ framesRef = <<>>
  /\ lastResult = NoResult
  /\ liveStreams = {}
  /\ openContexts = {}
  /\ connectedProcessors = {}
  /\ pendingStarts = {}
  /\ nextId = 1
  /\ ret = Ret("none", "none", "none")
  /\ arrived = <<>>
  /\ bufferSrcs = {}
  /\ abandoned = FALSE
  /\ voiceEnrollmentStatus = "null"
  /\ voiceVerification = NoVerification
  /\ profiles = {}
  /\ inflight = {}

\* ---- React: a render hands the callbacks the current isRecording ----
Render ==
  /\ renderedIsRecording # isRecording
  /\ renderedIsRecording' = isRecording
  /\ UNCHANGED <<isRecording, refs, framesRef, lastResult, devices,
                 pendingStarts, nextId, ret, ghosts>>
  /\ UNCHANGED voice

\* ---- start(), lines 58-62: the guard returns silently ----
StartIgnored ==
  /\ renderedIsRecording
  /\ ret' = Ret("start", "returned", "none")
  /\ UNCHANGED <<isRecording, renderedIsRecording, refs, framesRef, lastResult,
                 devices, pendingStarts, nextId, ghosts>>
  /\ UNCHANGED voice

\* ---- start(), line 63: past the guard, suspended at getUserMedia ----
StartBegin ==
  /\ ~renderedIsRecording
  /\ nextId <= MaxStarts
  /\ pendingStarts' = pendingStarts \cup {nextId}
  /\ nextId' = nextId + 1
  /\ ret' = Ret("start", "suspended", "none")
  /\ UNCHANGED <<isRecording, renderedIsRecording, refs, framesRef, lastResult,
                 devices, ghosts>>
  /\ UNCHANGED voice

\* ---- start(), line 63: getUserMedia rejects (permission, no hardware) ----
StartDenied(id) ==
  /\ id \in pendingStarts
  /\ pendingStarts' = pendingStarts \ {id}
  /\ ret' = Ret("start", "rejected", "DeviceUnavailableError")
  /\ UNCHANGED <<isRecording, renderedIsRecording, refs, framesRef, lastResult,
                 devices, nextId, ghosts>>
  /\ UNCHANGED voice

\* ---- start(), line 64: the stream is granted, new AudioContext() throws ----
StartContextFails(id) ==
  /\ id \in pendingStarts
  /\ pendingStarts' = pendingStarts \ {id}
  /\ liveStreams' = liveStreams \cup {id}
  /\ ret' = Ret("start", "rejected", "DeviceUnavailableError")
  /\ UNCHANGED <<isRecording, renderedIsRecording, refs, framesRef, lastResult,
                 openContexts, connectedProcessors, nextId, ghosts>>
  /\ UNCHANGED voice

\* ---- start(), lines 64-69: createMediaStreamSource/ScriptProcessor throws ----
StartNodeFails(id) ==
  /\ id \in pendingStarts
  /\ pendingStarts' = pendingStarts \ {id}
  /\ liveStreams' = liveStreams \cup {id}
  /\ openContexts' = openContexts \cup {id}
  /\ audioContextRef' = id
  /\ mediaStreamRef' = id
  /\ ret' = Ret("start", "rejected", "DeviceUnavailableError")
  /\ UNCHANGED <<isRecording, renderedIsRecording, processorRef, framesRef,
                 lastResult, connectedProcessors, nextId, ghosts>>
  /\ UNCHANGED voice

\* ---- start(), lines 64-80: the device is set up and recording begins ----
StartResume(id) ==
  /\ id \in pendingStarts
  /\ pendingStarts' = pendingStarts \ {id}
  /\ liveStreams' = liveStreams \cup {id}
  /\ openContexts' = openContexts \cup {id}
  /\ audioContextRef' = id
  /\ mediaStreamRef' = id
  /\ framesRef' = <<>>
  /\ connectedProcessors' = connectedProcessors \cup {id}
  /\ processorRef' = id
  /\ isRecording' = TRUE
  /\ ret' = Ret("start", "resolved", "none")
  /\ arrived' = <<>>
  /\ bufferSrcs' = {}
  /\ abandoned' = FALSE
  /\ UNCHANGED <<renderedIsRecording, lastResult, nextId>>
  /\ UNCHANGED voice

\* onaudioprocess appending to a buffer that the published waveform aliases
OnAudioProcessAliased(id, data) ==
  /\ id \in connectedProcessors
  /\ id \in openContexts
  /\ Len(framesRef) < MaxFrames
  /\ framesRef' = Append(framesRef, data)
  /\ arrived' = arrived \o data
  /\ bufferSrcs' = bufferSrcs \cup {id}
  /\ lastResult' = IF lastResult.set
                     THEN [lastResult EXCEPT !.raw = lastResult.raw \o data]
                     ELSE lastResult
  /\ UNCHANGED <<isRecording, renderedIsRecording, refs, devices,
                 pendingStarts, nextId, ret, abandoned>>
  /\ UNCHANGED voice

\* ---- processor.onaudioprocess, lines 72-75 ----
OnAudioProcess(id, data) ==
  /\ id \in connectedProcessors
  /\ id \in openContexts
  /\ Len(framesRef) < MaxFrames
  /\ framesRef' = Append(framesRef, data)
  /\ arrived' = arrived \o data
  /\ bufferSrcs' = bufferSrcs \cup {id}
  /\ UNCHANGED <<isRecording, renderedIsRecording, refs, lastResult, devices,
                 pendingStarts, nextId, ret, abandoned>>
  /\ UNCHANGED voice

\* ---- the body of stop(), lines 43-55 ----
StopEffect ==
  /\ connectedProcessors' = connectedProcessors \ {processorRef}
  /\ processorRef' = Null
  /\ liveStreams' = liveStreams \ {mediaStreamRef}
  /\ openContexts' = openContexts \ {audioContextRef}
  /\ audioContextRef' = Null
  /\ mediaStreamRef' = Null
  /\ isRecording' = FALSE
  /\ abandoned' = (abandoned \/ (isRecording /\ framesRef # <<>>))

\* stop() that also resets the published result
StopClearsResult ==
  /\ StopEffect
  /\ ret' = Ret("stop", "returned", "none")
  /\ lastResult' = NoResult
  /\ UNCHANGED <<renderedIsRecording, framesRef, pendingStarts,
                 nextId, arrived, bufferSrcs>>
  /\ UNCHANGED voice

\* ---- stop(), lines 42-56 ----
Stop ==
  /\ StopEffect
  /\ ret' = Ret("stop", "returned", "none")
  /\ UNCHANGED <<renderedIsRecording, framesRef, lastResult, pendingStarts,
                 nextId, arrived, bufferSrcs>>
  /\ UNCHANGED voice

\* ---- finish(), lines 84-86: the guard returns null ----
FinishIgnored ==
  /\ ~renderedIsRecording
  /\ ret' = Ret("finish", "null", "none")
  /\ UNCHANGED <<isRecording, renderedIsRecording, refs, framesRef, lastResult,
                 devices, pendingStarts, nextId, ghosts>>
  /\ UNCHANGED voice

\* finish() that assembles and publishes again when the context is gone
FinishNoContextRepublishes ==
  /\ renderedIsRecording
  /\ audioContextRef = Null
  /\ StopEffect
  /\ ret' = IF computeVoicePrint(Assemble(framesRef)).ok
              THEN Ret("finish", "payload", "none")
              ELSE Ret("finish", "null", "none")
  /\ lastResult' = IF computeVoicePrint(Assemble(framesRef)).ok
                     THEN [set |-> TRUE,
                           vector |-> computeVoicePrint(Assemble(framesRef)).vector,
                           raw |-> Assemble(framesRef) \o Assemble(framesRef)]
                     ELSE lastResult
  /\ UNCHANGED <<renderedIsRecording, framesRef, pendingStarts,
                 nextId, arrived, bufferSrcs>>
  /\ UNCHANGED voice

\* ---- finish(), lines 88-92: no audio context, falls back to stop() ----
FinishNoContext ==
  /\ renderedIsRecording
  /\ audioContextRef = Null
  /\ StopEffect
  /\ ret' = Ret("finish", "null", "none")
  /\ UNCHANGED <<renderedIsRecording, framesRef, lastResult, pendingStarts,
                 nextId, arrived, bufferSrcs>>
  /\ UNCHANGED voice

\* ---- finish(), lines 94-109: device released, computeVoicePrint throws ----
FinishThrows ==
  /\ renderedIsRecording
  /\ audioContextRef # Null
  /\ ~computeVoicePrint(Assemble(framesRef)).ok
  /\ connectedProcessors' = connectedProcessors \ {processorRef}
  /\ processorRef' = Null
  /\ liveStreams' = liveStreams \ {mediaStreamRef}
  /\ mediaStreamRef' = Null
  /\ ret' = Ret("finish", "rejected",
                computeVoicePrint(Assemble(framesRef)).error)
  /\ UNCHANGED <<isRecording, renderedIsRecording, audioContextRef, framesRef,
                 lastResult, openContexts, pendingStarts, nextId, ghosts>>
  /\ UNCHANGED voice

\* ---- finish(), lines 94-121: the waveform is assembled and published ----
FinishPublishes ==
  /\ renderedIsRecording
  /\ audioContextRef # Null
  /\ computeVoicePrint(Assemble(framesRef)).ok
  /\ connectedProcessors' = connectedProcessors \ {processorRef}
  /\ processorRef' = Null
  /\ liveStreams' = liveStreams \ {mediaStreamRef}
  /\ mediaStreamRef' = Null
  /\ lastResult' = [set |-> TRUE,
                    vector |-> computeVoicePrint(Assemble(framesRef)).vector,
                    raw |-> Assemble(framesRef)]
  /\ openContexts' = openContexts \ {audioContextRef}
  /\ audioContextRef' = Null
  /\ isRecording' = FALSE
  /\ ret' = Ret("finish", "payload", "none")
  /\ UNCHANGED <<renderedIsRecording, framesRef, pendingStarts, nextId,
                 ghosts>>
  /\ UNCHANGED voice

Start == StartIgnored \/ StartBegin

Finish == FinishIgnored \/ FinishNoContext \/ FinishThrows \/ FinishPublishes

Next ==
  \/ Render
  \/ StartIgnored
  \/ StartBegin
  \/ \E id \in Ids : StartDenied(id)
  \/ \E id \in Ids : StartContextFails(id)
  \/ \E id \in Ids : StartNodeFails(id)
  \/ \E id \in Ids : StartResume(id)
  \/ \E id \in Ids : \E data \in Chunks : OnAudioProcess(id, data)
  \/ Stop
  \/ FinishIgnored
  \/ FinishNoContext
  \/ FinishThrows
  \/ FinishPublishes

Spec == Init /\ [][Next]_vars

TypeOK ==
  /\ isRecording \in BOOLEAN
  /\ renderedIsRecording \in BOOLEAN
  /\ mediaStreamRef \in Ids \cup {Null}
  /\ audioContextRef \in Ids \cup {Null}
  /\ processorRef \in Ids \cup {Null}
  /\ Len(framesRef) <= MaxFrames
  /\ liveStreams \subseteq Ids
  /\ openContexts \subseteq Ids
  /\ connectedProcessors \subseteq Ids
  /\ pendingStarts \subseteq Ids
  /\ nextId \in 1..(MaxStarts + 1)

\* ================= voice enrollment and verification =================

\* ---- zod schemas of the two routes ----
RegisterSchema(body) ==
  [success |-> body.contactId.has /\ body.vector.has,
   data |-> [contactId |-> body.contactId.val,
             vector |-> body.vector.val,
             modelVersion |-> IF body.modelVersion.has THEN body.modelVersion.val
                              ELSE DefaultModelVersion]]

VerifySchemaDropsThreshold(body) ==
  [success |-> /\ body.contactId.has
               /\ body.vector.has
               /\ body.threshold.has
                    => (body.threshold.val >= 0 /\ body.threshold.val <= Unit),
   data |-> [contactId |-> body.contactId.val,
             vector |-> body.vector.val,
             threshold |-> NoThreshold]]

VerifySchemaNoRange(body) ==
  [success |-> body.contactId.has /\ body.vector.has,
   data |-> [contactId |-> body.contactId.val,
             vector |-> body.vector.val,
             threshold |-> body.threshold]]

VerifySchema(body) ==
  [success |-> /\ body.contactId.has
               /\ body.vector.has
               /\ body.threshold.has
                    => (body.threshold.val >= 0 /\ body.threshold.val <= Unit),
   data |-> [contactId |-> body.contactId.val,
             vector |-> body.vector.val,
             threshold |-> body.threshold]]

\* ---- the profile table (one row per contact) ----
RowsOf(rows, contactId) == {row \in rows : row.contactId = contactId}

ProfileRow(data, raw) ==
  [contactId |-> data.contactId, vector |-> data.vector,
   modelVersion |-> data.modelVersion, raw |-> raw]

storeVoiceProfileAppends(rows, data, raw) == rows \cup {ProfileRow(data, raw)}

\* a save that overwrites the vector of an existing profile and leaves the rest
storeVoiceProfileTorn(rows, data, raw) ==
  IF RowsOf(rows, data.contactId) = {}
    THEN rows \cup {ProfileRow(data, raw)}
    ELSE (rows \ RowsOf(rows, data.contactId))
           \cup {[row EXCEPT !.vector = data.vector] : row \in RowsOf(rows, data.contactId)}

\* save(identityId, vector, modelVersion): replaces the profile of the identity
storeVoiceProfile(rows, data, raw) ==
  (rows \ RowsOf(rows, data.contactId)) \cup {ProfileRow(data, raw)}

\* ---- cosine similarity ----
RECURSIVE DotFrom(_, _, _)
DotFrom(a, b, i) ==
  IF i > Len(a) \/ i > Len(b) THEN 0
  ELSE a[i] * b[i] + DotFrom(a, b, i + 1)

Dot(a, b) == DotFrom(a, b, 1)

Cosine(a, b) == [num |-> Dot(a, b), den2 |-> Dot(a, a) * Dot(b, b)]

Clamp(sim) ==
  IF sim.num * sim.num > sim.den2
    THEN [num |-> IF sim.num > 0 THEN 1 ELSE 0 - 1, den2 |-> 1]
    ELSE sim

\* sim >= threshold / Unit
AtLeast(sim, threshold) ==
  IF threshold >= 0
    THEN sim.num >= 0 /\ Unit * Unit * sim.num * sim.num >= threshold * threshold * sim.den2
    ELSE sim.num >= 0 \/ Unit * Unit * sim.num * sim.num <= threshold * threshold * sim.den2

Failure(error) == [ok |-> FALSE, error |-> error, result |-> NoVerification]

verifyVoiceProfileTruncates(rows, data) ==
  IF RowsOf(rows, data.contactId) = {} THEN Failure("NotFound")
  ELSE LET stored == CHOOSE row \in RowsOf(rows, data.contactId) : TRUE
           threshold == IF data.threshold.has THEN data.threshold.val
                        ELSE DefaultThreshold
       IN IF Dot(data.vector, data.vector) = 0 \/ Dot(stored.vector, stored.vector) = 0
            THEN Failure("NonFiniteSimilarityError")
          ELSE [ok |-> TRUE, error |-> "none",
                result |-> [set |-> TRUE,
                            similarity |-> Clamp(Cosine(data.vector, stored.vector)),
                            threshold |-> threshold,
                            verified |-> AtLeast(Clamp(Cosine(data.vector, stored.vector)),
                                                 threshold)]]

\* verify that divides by a zero norm instead of failing
verifyVoiceProfileNoNormCheck(rows, data) ==
  IF RowsOf(rows, data.contactId) = {} THEN Failure("NotFound")
  ELSE LET stored == CHOOSE row \in RowsOf(rows, data.contactId) : TRUE
           threshold == IF data.threshold.has THEN data.threshold.val
                        ELSE DefaultThreshold
       IN IF Len(data.vector) # Len(stored.vector)
            THEN Failure("VectorDimensionMismatchError")
          ELSE [ok |-> TRUE, error |-> "none",
                result |-> [set |-> TRUE,
                            similarity |-> Clamp(Cosine(data.vector, stored.vector)),
                            threshold |-> threshold,
                            verified |-> AtLeast(Clamp(Cosine(data.vector, stored.vector)),
                                                 threshold)]]

\* verify(candidateVector, storedProfile, threshold = default)
verifyVoiceProfile(rows, data) ==
  IF RowsOf(rows, data.contactId) = {} THEN Failure("NotFound")
  ELSE LET stored == CHOOSE row \in RowsOf(rows, data.contactId) : TRUE
           threshold == IF data.threshold.has THEN data.threshold.val
                        ELSE DefaultThreshold
       IN IF Len(data.vector) # Len(stored.vector)
            THEN Failure("VectorDimensionMismatchError")
          ELSE IF Dot(data.vector, data.vector) = 0 \/ Dot(stored.vector, stored.vector) = 0
            THEN Failure("NonFiniteSimilarityError")
          ELSE [ok |-> TRUE, error |-> "none",
                result |-> [set |-> TRUE,
                            similarity |-> Clamp(Cosine(data.vector, stored.vector)),
                            threshold |-> threshold,
                            verified |-> AtLeast(Clamp(Cosine(data.vector, stored.vector)),
                                                 threshold)]]

\* ---- responses of the routes ----
ErrorResponse(status, error, core) ==
  [status |-> status, error |-> error, profile |-> NoProfile,
   result |-> NoVerification, core |-> core]

\* the verify route answering 200 when verifyVoiceProfile throws
VerifyResponseSwallowsError(rows, body) ==
  IF ~VerifySchema(body).success THEN ErrorResponse(400, "ZodError", "none")
  ELSE [status |-> 200, error |-> "", profile |-> NoProfile,
        result |-> [verifyVoiceProfile(rows, VerifySchema(body).data).result
                      EXCEPT !.set = TRUE],
        core |-> IF verifyVoiceProfile(rows, VerifySchema(body).data).ok THEN "ok"
                 ELSE verifyVoiceProfile(rows, VerifySchema(body).data).error]

\* verify route, lines 11-26
VerifyResponse(rows, body) ==
  IF ~VerifySchema(body).success THEN ErrorResponse(400, "ZodError", "none")
  ELSE IF verifyVoiceProfile(rows, VerifySchema(body).data).ok
    THEN [status |-> 200, error |-> "", profile |-> NoProfile,
          result |-> verifyVoiceProfile(rows, VerifySchema(body).data).result,
          core |-> "ok"]
  ELSE ErrorResponse(500, "Failed to verify voice profile",
                     verifyVoiceProfile(rows, VerifySchema(body).data).error)

\* ---- requests in flight ----
\* superseded tells that the dashboard has issued a verification after this
\* one; late that the result of a verification issued later is already
\* displayed.  Requests in flight that agree in every field count once.
Request(origin, route, body, producedBy, raw) ==
  [origin |-> origin, route |-> route, body |-> body,
   producedBy |-> producedBy, raw |-> raw, stage |-> "sent", resp |-> NoResponse,
   superseded |-> FALSE, late |-> FALSE]

Supersede(g) ==
  IF g.origin = "dashboard" /\ g.route = "verify"
    THEN [g EXCEPT !.superseded = TRUE]
    ELSE g

Answer(e, resp) == (inflight \ {e}) \cup {[e EXCEPT !.stage = "done", !.resp = resp]}

\* ---- bodies built by the dashboard, part_000 lines 245-249 and 280-283 ----
EnrollBody(contactId, result) ==
  Body(Some(contactId), Some(result.vector), NoThreshold, Some(DashboardModelVersion))

VerifyBodyNoVector(contactId, result) ==
  Body(Some(contactId), NoVector, NoThreshold, NoString)

VerifyBody(contactId, result) ==
  Body(Some(contactId), Some(result.vector), NoThreshold, NoString)

\* ---- a recording session ends and publishes its result, lines 99-116 ----
CaptureCompleted(waveform) ==
  /\ computeVoicePrint(waveform).ok
  /\ lastResult' = [set |-> TRUE,
                    vector |-> computeVoicePrint(waveform).vector,
                    raw |-> waveform]
  /\ lastResult' # lastResult
  /\ UNCHANGED <<capture, voice>>

\* ---- handleVoiceEnrollment without a capture result, lines 233-237 ----
EnrollmentWithoutCapture(contactId) ==
  /\ ~lastResult.set
  /\ voiceEnrollmentStatus' = "Capture a voice sample first."
  /\ UNCHANGED <<capture, lastResult, voiceVerification, profiles, inflight>>

\* the same handler with the guard of lines 234-237 left out
HandleVoiceEnrollmentUnguarded(contactId) ==
  /\ voiceEnrollmentStatus' = "Uploading voice profile..."
  /\ inflight' = inflight \cup
       {Request("dashboard", "register",
                EnrollBody(contactId, lastResult), DashboardModelVersion,
                lastResult.raw)}
  /\ UNCHANGED <<capture, lastResult, voiceVerification, profiles>>

\* ---- handleVoiceEnrollment up to the fetch, lines 233-250 ----
HandleVoiceEnrollment(contactId) ==
  /\ lastResult.set
  /\ voiceEnrollmentStatus' = "Uploading voice profile..."
  /\ inflight' = inflight \cup
       {Request("dashboard", "register",
                EnrollBody(contactId, lastResult), DashboardModelVersion,
                lastResult.raw)}
  /\ UNCHANGED <<capture, lastResult, voiceVerification, profiles>>

\* ---- handleVoiceVerification without a capture result, lines 268-272 ----
VerificationWithoutCapture(contactId) ==
  /\ ~lastResult.set
  /\ voiceEnrollmentStatus' = "Capture a voice sample first."
  /\ UNCHANGED <<capture, lastResult, voiceVerification, profiles, inflight>>

\* ---- handleVoiceVerification up to the fetch, lines 268-284 ----
HandleVoiceVerification(contactId) ==
  /\ lastResult.set
  /\ inflight' = {Supersede(g) : g \in inflight} \cup
       {Request("dashboard", "verify",
                VerifyBody(contactId, lastResult), DashboardModelVersion,
                lastResult.raw)}
  /\ UNCHANGED <<capture, lastResult, voiceEnrollmentStatus, voiceVerification,
                 profiles>>

\* ---- any other client of the routes posts a body ----
ClientPosts(route, body, producedBy) ==
  /\ inflight' = inflight \cup
       {Request("client", route, body, producedBy, <<>>)}
  /\ UNCHANGED <<capture, lastResult, voiceEnrollmentStatus, voiceVerification,
                 profiles>>

\* the register route without the lookup of lines 21-27
RegisterCheckNoLookup(e) ==
  /\ e \in inflight
  /\ e.route = "register"
  /\ e.stage = "sent"
  /\ inflight' =
       IF ~RegisterSchema(e.body).success
         THEN Answer(e, ErrorResponse(400, "ZodError", "none"))
         ELSE (inflight \ {e}) \cup {[e EXCEPT !.stage = "found"]}
  /\ UNCHANGED <<capture, lastResult, voiceEnrollmentStatus, voiceVerification,
                 profiles>>

\* the register route looking the contact up before validating the body
RegisterCheckLookupFirst(e) ==
  /\ e \in inflight
  /\ e.route = "register"
  /\ e.stage = "sent"
  /\ inflight' =
       IF e.body.contactId.val \notin KnownContacts
         THEN Answer(e, ErrorResponse(404, "Contact not found", "none"))
       ELSE IF ~RegisterSchema(e.body).success
         THEN Answer(e, ErrorResponse(400, "ZodError", "none"))
       ELSE (inflight \ {e}) \cup {[e EXCEPT !.stage = "found"]}
  /\ UNCHANGED <<capture, lastResult, voiceEnrollmentStatus, voiceVerification,
                 profiles>>

\* ---- register route, lines 13-27: validation, then contact lookup ----
RegisterCheck(e) ==
  /\ e \in inflight
  /\ e.route = "register"
  /\ e.stage = "sent"
  /\ inflight' =
       IF ~RegisterSchema(e.body).success
         THEN Answer(e, ErrorResponse(400, "ZodError", "none"))
       ELSE IF RegisterSchema(e.body).data.contactId \notin KnownContacts
         THEN Answer(e, ErrorResponse(404, "Contact not found", "none"))
       ELSE (inflight \ {e}) \cup {[e EXCEPT !.stage = "found"]}
  /\ UNCHANGED <<capture, lastResult, voiceEnrollmentStatus, voiceVerification,
                 profiles>>

\* ---- register route, lines 29-31: the profile is stored ----
RegisterStore(e) ==
  /\ e \in inflight
  /\ e.route = "register"
  /\ e.stage = "found"
  /\ profiles' = storeVoiceProfile(profiles, RegisterSchema(e.body).data, e.raw)
  /\ inflight' = Answer(e, [status |-> 200, error |-> "",
                            profile |-> ProfileRow(RegisterSchema(e.body).data, e.raw),
                            result |-> NoVerification, core |-> "ok"])
  /\ UNCHANGED <<capture, lastResult, voiceEnrollmentStatus, voiceVerification>>

\* ---- register route, lines 32-35: storeVoiceProfile throws ----
RegisterStoreFails(e) ==
  /\ e \in inflight
  /\ e.route = "register"
  /\ e.stage = "found"
  /\ inflight' = Answer(e, ErrorResponse(500, "Failed to register voice profile",
                                         "StoreError"))
  /\ UNCHANGED <<capture, lastResult, voiceEnrollmentStatus, voiceVerification,
                 profiles>>

\* ---- verify route, lines 11-26 ----
VerifyRoute(e) ==
  /\ e \in inflight
  /\ e.route = "verify"
  /\ e.stage = "sent"
  /\ inflight' = Answer(e, VerifyResponse(profiles, e.body))
  /\ UNCHANGED <<capture, lastResult, voiceEnrollmentStatus, voiceVerification,
                 profiles>>

\* ---- handleVoiceEnrollment after the fetch, lines 252-265 ----
EnrollmentResponse(e) ==
  /\ e \in inflight
  /\ e.origin = "dashboard"
  /\ e.route = "register"
  /\ e.stage = "done"
  /\ voiceEnrollmentStatus' =
       IF e.resp.status = 200 THEN "Voice profile enrolled successfully."
       ELSE e.resp.error
  /\ inflight' = inflight \ {e}
  /\ UNCHANGED <<capture, lastResult, voiceVerification, profiles>>

\* the result of e, issued after the verification g, gets displayed
Overtaken(g, e) ==
  /\ g.origin = "dashboard"
  /\ g.route = "verify"
  /\ ~e.superseded
  /\ e.resp.status = 200

\* ---- handleVoiceVerification after the fetch, lines 286-303 ----
VerificationResponse(e) ==
  /\ e \in inflight
  /\ e.origin = "dashboard"
  /\ e.route = "verify"
  /\ e.stage = "done"
  /\ voiceVerification' =
       IF e.resp.status = 200 THEN e.resp.result ELSE voiceVerification
  /\ voiceEnrollmentStatus' =
       IF e.resp.status = 200 THEN voiceEnrollmentStatus ELSE e.resp.error
  /\ inflight' = {IF Overtaken(g, e) THEN [g EXCEPT !.late = TRUE] ELSE g :
                    g \in inflight \ {e}}
  /\ UNCHANGED <<capture, lastResult, profiles>>

\* ---- the fetch of a handler rejects (network error), lines 259-265, 297-303 ----
FetchFails(e) ==
  /\ e \in inflight
  /\ e.origin = "dashboard"
  /\ e.stage = "sent"
  /\ voiceEnrollmentStatus' = "Failed to fetch"
  /\ inflight' = inflight \ {e}
  /\ UNCHANGED <<capture, lastResult, voiceVerification, profiles>>

\* ---- another client receives its response ----
ClientReceives(e) ==
  /\ e \in inflight
  /\ e.origin = "client"
  /\ e.stage = "done"
  /\ inflight' = inflight \ {e}
  /\ UNCHANGED <<capture, lastResult, voiceEnrollmentStatus, voiceVerification,
                 profiles>>

NextVoice ==
  \/ \E waveform \in Waveforms : CaptureCompleted(waveform)
  \/ \E c \in ContactIds : EnrollmentWithoutCapture(c)
  \/ inflight = {} /\ \E c \in ContactIds : HandleVoiceEnrollment(c)
  \/ \E c \in ContactIds : VerificationWithoutCapture(c)
  \/ inflight = {} /\ \E c \in ContactIds : HandleVoiceVerification(c)
  \/ inflight = {} /\ \E body \in ClientRegisterBodies :
                         ClientPosts("register", body, DefaultModelVersion)
  \/ inflight = {} /\ \E body \in ClientVerifyBodies :
                         ClientPosts("verify", body, DefaultModelVersion)
  \/ \E e \in inflight : RegisterCheck(e)
  \/ \E e \in inflight : RegisterStore(e)
  \/ \E e \in inflight : RegisterStoreFails(e)
  \/ \E e \in inflight : VerifyRoute(e)
  \/ \E e \in inflight : EnrollmentResponse(e)
  \/ \E e \in inflight : VerificationResponse(e)
  \/ \E e \in inflight : FetchFails(e)
  \/ \E e \in inflight : ClientReceives(e)

SpecVoice == Init /\ [][NextVoice]_vars

\* the dashboard with several requests in flight at once
NextRace ==
  \/ \E waveform \in RaceWaveforms : CaptureCompleted(waveform)
  \/ Cardinality(inflight) < MaxInFlight
       /\ \E c \in KnownContacts : HandleVoiceEnrollment(c)
  \/ Cardinality(inflight) < MaxInFlight
       /\ \E c \in KnownContacts : HandleVoiceVerification(c)
  \/ \E e \in inflight : RegisterCheck(e)
  \/ \E e \in inflight : RegisterStore(e)
  \/ \E e \in inflight : RegisterStoreFails(e)
  \/ \E e \in inflight : VerifyRoute(e)
  \/ \E e \in inflight : EnrollmentResponse(e)
  \/ \E e \in inflight : VerificationResponse(e)
  \/ \E e \in inflight : FetchFails(e)

SpecRace == Init /\ [][NextRace]_vars

\* ---- calls as seen by a caller ----
StartFails ==
  \E id \in Ids : StartDenied(id) \/ StartContextFails(id) \/ StartNodeFails(id)

ChunkDelivered == \E id \in Ids : \E data \in Chunks : OnAudioProcess(id, data)

HasNonFinite(w) == \E i \in 1..Len(w) : ~IsFinite(w[i])

NonFiniteChunkDelivered ==
  \E id \in Ids : \E data \in Chunks : HasNonFinite(data) /\ OnAudioProcess(id, data)

\* finish() reaches lines 99-107 and assembles the waveform
Assembles == FinishThrows \/ FinishPublishes

HeldDeviceClosed ==
  /\ mediaStreamRef \notin liveStreams'
  /\ audioContextRef \notin openContexts'
  /\ processorRef \notin connectedProcessors'

\* C1: a start() issued while a session is Recording (and the callback sees
\* it) fails with AlreadyRecordingError and leaves the state, the open device
\* and the buffered chunks as they were.
C1_StartWhileRecordingFails ==
  [][(Start /\ isRecording /\ renderedIsRecording)
       => /\ ret'.error = "AlreadyRecordingError"
          /\ UNCHANGED <<isRecording, refs, devices, framesRef>>]_vars

\* C2: of two start() calls, the second issued while the first is suspended
\* or active, the second fails; at most one capture pipeline delivers chunks,
\* and no assembled waveform holds chunks of two device streams.
C2_NoConcurrentSessions ==
  [][/\ (Start /\ (pendingStarts # {} \/ isRecording))
          => (ret'.outcome = "rejected" /\ pendingStarts' = pendingStarts)
     /\ Cardinality(connectedProcessors' \cap openContexts') <= 1
     /\ Assembles => Cardinality(bufferSrcs) <= 1]_vars

\* C3: the waveform finish() assembles and returns is the concatenation, in
\* arrival order, of the chunks pushed since the session's buffer was opened;
\* its length is the sum of the chunk lengths.
C3_FinishConcatenatesInOrder ==
  [][/\ FinishPublishes
          => /\ lastResult'.raw = arrived
             /\ Len(lastResult'.raw) = TotalLength(framesRef)
     /\ Assembles
          => /\ Assemble(framesRef) = arrived
             /\ Len(Assemble(framesRef)) = TotalLength(framesRef)]_vars

\* C3 witness: finish() has returned a waveform made of at least two chunks
\* whose samples differ.
C3_Witness ==
  /\ ret.op = "finish"
  /\ ret.outcome = "payload"
  /\ Len(lastResult.raw) = 2 * BufferSize
  /\ lastResult.raw[1] = "0"
  /\ lastResult.raw[BufferSize + 1] = "x"

\* C4: every finish() called in state Recording ends Idle with the device the
\* controller holds closed, whether or not feature extraction succeeds.
C4_FinishEndsIdleAndClosed ==
  [][(Finish /\ isRecording /\ renderedIsRecording)
       => (~isRecording' /\ HeldDeviceClosed)]_vars

\* C5: finish() called while Idle fails with NoActiveSessionError and changes
\* nothing.
C5_FinishWhileIdleFails ==
  [][(Finish /\ ~isRecording /\ ~renderedIsRecording)
       => /\ ret'.error = "NoActiveSessionError"
          /\ UNCHANGED <<isRecording, refs, devices, framesRef, lastResult>>]_vars

\* C6: a chunk is appended to the buffer only while the controller is
\* Recording; a chunk delivered while it is Idle leaves the buffer unchanged.
C6_ChunksOnlyWhileRecording ==
  [][ChunkDelivered => (isRecording /\ isRecording')]_vars

\* C7: when start() fails to acquire or set up the device, the error is
\* surfaced, the state stays Idle and no stream, context or processor is left
\* open.
C7_FailedStartLeavesNothingOpen ==
  [][(StartFails /\ ~isRecording)
       => /\ ret'.outcome = "rejected"
          /\ ~isRecording'
          /\ UNCHANGED devices]_vars

\* C8: stop() during Recording releases the device, discards every buffered
\* chunk and moves to Idle; no vector is computed from the chunks of an
\* abandoned session.
C8_StopDiscardsSession ==
  [][/\ (Stop /\ isRecording)
          => (~isRecording' /\ HeldDeviceClosed /\ framesRef' = <<>>)
     /\ FinishPublishes => ~abandoned]_vars

\* C9: finish() right after start() with no chunk pushed is not an error: it
\* yields a zero-length waveform and returns to Idle, and no vector is
\* published for it.
C9_EmptyFinishReturnsToIdle ==
  [][(Finish /\ isRecording /\ renderedIsRecording /\ audioContextRef # Null
        /\ framesRef = <<>>)
       => /\ ret'.outcome # "rejected"
          /\ Assembles /\ Assemble(framesRef) = <<>>
          /\ ~isRecording'
          /\ lastResult' = lastResult]_vars

\* C10: a chunk holding a NaN or infinite sample is dropped, the chunks before
\* it are kept, and no assembled waveform holds a non-finite sample.
C10_NonFiniteChunkDropped ==
  [][/\ NonFiniteChunkDelivered => framesRef' = framesRef
     /\ Assembles => ~HasNonFinite(Assemble(framesRef))]_vars

\* C12: at most one audio stream, one audio context and one processor are
\* open at any time, and when the controller is Idle none is open.
C12_AtMostOneDeviceOpen ==
  /\ Cardinality(liveStreams) <= 1
  /\ Cardinality(openContexts) <= 1
  /\ Cardinality(connectedProcessors) <= 1
  /\ ~isRecording
       => (liveStreams = {} /\ openContexts = {} /\ connectedProcessors = {})

\* C13: the waveform finish() returns holds every chunk delivered before
\* finish() was invoked, and a chunk delivered after finish() began never
\* becomes part of a waveform already returned.
C13_FinishCutsOffAtInvocation ==
  [][/\ FinishPublishes => lastResult'.raw = arrived
     /\ ChunkDelivered => lastResult' = lastResult]_vars

\* C13 witness: finish() has returned a waveform and a chunk was delivered
\* afterwards; the returned waveform is the chunks delivered before.
C13_Witness ==
  /\ ret.op = "finish"
  /\ ret.outcome = "payload"
  /\ lastResult.set
  /\ Len(arrived) > Len(lastResult.raw)
  /\ lastResult.raw = SubSeq(arrived, 1, Len(lastResult.raw))

\* ---- voice routes as seen by a caller ----
\* the requests a step has answered or sent
Fresh == inflight' \ inflight

DashboardSends == \E f \in Fresh : f.origin = "dashboard" /\ f.stage = "sent"

HandlerWithoutCapture ==
  \E c \in ContactIds : EnrollmentWithoutCapture(c) \/ VerificationWithoutCapture(c)

ThresholdOf(body) == IF body.threshold.has THEN body.threshold.val ELSE DefaultThreshold

OutOfRange(body) ==
  body.threshold.has /\ (body.threshold.val < 0 \/ body.threshold.val > Unit)

\* C11: the dashboard posts to /api/voice/register or /api/voice/verify only
\* once a finish() has produced a capture result; a handler invoked with no
\* capture result sends nothing.
C11_NoPostBeforeCapture ==
  [][/\ DashboardSends => lastResult.set
     /\ HandlerWithoutCapture => (~lastResult.set /\ inflight' = inflight)]_vars

\* C11 witness: a handler was invoked with no capture result and nothing was
\* sent.
C11_Witness ==
  /\ ~lastResult.set
  /\ voiceEnrollmentStatus = "Capture a voice sample first."
  /\ inflight = {}

\* C14: in every verification result, verified is (similarity >= threshold)
\* and the threshold reported is the caller's when one was given, otherwise
\* the default constant.
C14_VerifiedIffAtLeastThreshold ==
  [][\A e \in inflight : VerifyRoute(e) =>
       \A f \in Fresh : f.resp.status = 200 =>
         /\ f.resp.result.threshold = ThresholdOf(e.body)
         /\ f.resp.result.verified
              = AtLeast(f.resp.result.similarity, f.resp.result.threshold)]_vars

\* C14 witness: a verification with a caller threshold of 0.5 was accepted
\* with a similarity that is below the default threshold.
C14_Witness ==
  \E f \in inflight :
    /\ f.route = "verify"
    /\ f.stage = "done"
    /\ f.resp.status = 200
    /\ f.body.threshold = Some(50)
    /\ f.resp.result.verified
    /\ ~AtLeast(f.resp.result.similarity, DefaultThreshold)

\* C15: verifying a vector of one length against a stored vector of another
\* length always fails with VectorDimensionMismatchError: no score, no
\* result, no truncation or padding.
C15_DimensionMismatchFails ==
  [][\A e \in inflight :
       (/\ VerifyRoute(e)
        /\ VerifySchema(e.body).success
        /\ \E row \in RowsOf(profiles, e.body.contactId.val) :
             Len(row.vector) # Len(e.body.vector.val))
       => \A f \in Fresh :
            /\ f.resp.status # 200
            /\ f.resp.core = "VectorDimensionMismatchError"
            /\ f.resp.result = NoVerification]_vars

\* C15 witness: a verification of a vector of length 1 against a stored
\* vector of length 2 has failed.
C15_Witness ==
  \E f \in inflight :
    /\ f.route = "verify"
    /\ f.stage = "done"
    /\ f.resp.core = "VectorDimensionMismatchError"
    /\ \E row \in RowsOf(profiles, f.body.contactId.val) :
         Len(row.vector) = 2 /\ Len(f.body.vector.val) = 1

\* C16: each identity has at most one stored profile, and the profile loaded
\* for it holds the vector and model version of the most recent successful
\* save; nothing else changes the store.
C16_OneProfileMostRecentSave ==
  [][/\ \A c \in ContactIds : Cardinality(RowsOf(profiles', c)) <= 1
     /\ \A e \in inflight : RegisterStore(e) =>
          \A row \in RowsOf(profiles', RegisterSchema(e.body).data.contactId) :
            /\ row.vector = e.body.vector.val
            /\ row.modelVersion = RegisterSchema(e.body).data.modelVersion
     /\ (~\E e \in inflight : RegisterStore(e)) => profiles' = profiles]_vars

\* C16 witness: a profile enrolled by the dashboard was replaced by a later
\* save with the default model version.
C16_Witness ==
  /\ voiceEnrollmentStatus = "Voice profile enrolled successfully."
  /\ \E row \in profiles :
       /\ row.contactId = "c1"
       /\ row.modelVersion = DefaultModelVersion
       /\ RowsOf(profiles, "c1") = {row}

\* C17: a well-formed register request for an identityId that is no contact
\* is answered 404 'Contact not found'; the store is unchanged and
\* storeVoiceProfile is not reached.
C17_UnknownContactIs404 ==
  [][/\ \A e \in inflight :
          (/\ RegisterCheck(e)
           /\ RegisterSchema(e.body).success
           /\ e.body.contactId.val \notin KnownContacts)
          => /\ \A f \in Fresh :
                  /\ f.stage = "done"
                  /\ f.resp.status = 404
                  /\ f.resp.error = "Contact not found"
                  /\ f.resp.core = "none"
             /\ profiles' = profiles
     /\ \A e \in inflight :
          RegisterStore(e) => e.body.contactId.val \in KnownContacts]_vars

\* C17 witness: a register request for an unknown contact was answered 404.
C17_Witness ==
  \E f \in inflight :
    /\ f.route = "register"
    /\ f.stage = "done"
    /\ f.body.contactId.val \notin KnownContacts
    /\ f.body.vector.has
    /\ f.resp.status = 404

\* C18: a verify request whose threshold is below 0 or above 1 is answered
\* 400 before verifyVoiceProfile is invoked.
C18_ThresholdOutOfRangeIs400 ==
  [][\A e \in inflight : (VerifyRoute(e) /\ OutOfRange(e.body)) =>
       \A f \in Fresh :
         /\ f.resp.status = 400
         /\ f.resp.core = "none"
         /\ f.resp.result = NoVerification]_vars

\* C18 witness: a verify request that is valid but for a threshold above 1,
\* for a contact with a stored profile of the same length, was answered 400.
C18_Witness ==
  \E f \in inflight :
    /\ f.route = "verify"
    /\ f.stage = "done"
    /\ f.body.threshold.has
    /\ f.body.threshold.val > Unit
    /\ f.body.vector.has
    /\ \E row \in RowsOf(profiles, f.body.contactId.val) :
         Len(row.vector) = Len(f.body.vector.val)
    /\ f.resp.status = 400

\* C19: a profile enrolled by the dashboard from a waveform, verified by the
\* dashboard with a capture of the same waveform and the default threshold,
\* gives verified = true with similarity >= threshold.
C19_SelfSimilarity ==
  [][\A e \in inflight :
       (/\ VerifyRoute(e)
        /\ e.origin = "dashboard"
        /\ e.raw # <<>>
        /\ \E row \in RowsOf(profiles, e.body.contactId.val) : row.raw = e.raw)
       => \A f \in Fresh :
            /\ f.resp.status = 200
            /\ f.resp.result.verified
            /\ f.resp.result.threshold = DefaultThreshold
            /\ AtLeast(f.resp.result.similarity, DefaultThreshold)]_vars

\* C19 witness: the dashboard verified a capture of the waveform the stored
\* profile was enrolled from, and the result is verified.
C19_Witness ==
  \E f \in inflight :
    /\ f.route = "verify"
    /\ f.origin = "dashboard"
    /\ f.stage = "done"
    /\ f.raw = lastResult.raw
    /\ \E row \in RowsOf(profiles, f.body.contactId.val) :
         row.raw = f.raw /\ row.raw # <<>>
    /\ f.resp.status = 200
    /\ f.resp.result.verified

\* C20: a verification never compares a candidate vector with a stored
\* vector of a different model version: when the versions differ the request
\* is rejected.
C20_NoCrossVersionComparison ==
  [][\A e \in inflight :
       (/\ VerifyRoute(e)
        /\ VerifySchema(e.body).success
        /\ \E row \in RowsOf(profiles, e.body.contactId.val) :
             row.modelVersion # e.producedBy)
       => \A f \in Fresh : f.resp.status # 200 /\ ~f.resp.result.set]_vars

\* C23: the published capture result changes only when a finish() completes
\* its extraction; start(), its continuations, stop() and chunk deliveries
\* leave it unchanged, also while a newer recording is in progress or was
\* abandoned.
C23_ResultChangesOnlyOnFinish ==
  [][/\ lastResult' # lastResult => FinishPublishes
     /\ (Start \/ StartFails \/ (\E id \in Ids : StartResume(id))
           \/ Stop \/ ChunkDelivered)
          => lastResult' = lastResult]_vars

\* C23 witness: after a completed capture a newer recording with buffered
\* chunks was abandoned by stop(), and the published result is still there.
C23_Witness ==
  /\ ret.op = "stop"
  /\ abandoned
  /\ lastResult.set
  /\ ~isRecording

Complete(row) ==
  /\ row.raw # <<>>
  /\ row.vector = computeVoicePrint(row.raw).vector
  /\ row.modelVersion = DashboardModelVersion

ZeroNorm(vector) == Dot(vector, vector) = 0

C22_SimilarityFiniteAndBounded ==
  [][\A e \in inflight : VerifyRoute(e) =>
       \A f \in Fresh :
         /\ f.resp.status = 200
              => /\ f.resp.result.similarity.den2 > 0
                 /\ f.resp.result.similarity.num * f.resp.result.similarity.num
                      <= f.resp.result.similarity.den2
         /\ (/\ VerifySchema(e.body).success
             /\ \E row \in RowsOf(profiles, e.body.contactId.val) :
                  /\ Len(row.vector) = Len(e.body.vector.val)
                  /\ ZeroNorm(row.vector) \/ ZeroNorm(e.body.vector.val))
              => /\ f.resp.status # 200
                 /\ f.resp.result = NoVerification
                 /\ f.resp.core = "NonFiniteSimilarityError"]_vars

\* C22 witness: a verification of a zero vector against a stored vector of
\* the same length has failed.
C22_Witness ==
  \E f \in inflight :
    /\ f.route = "verify"
    /\ f.stage = "done"
    /\ f.body.vector.has
    /\ ZeroNorm(f.body.vector.val)
    /\ \E row \in RowsOf(profiles, f.body.contactId.val) :
         Len(row.vector) = Len(f.body.vector.val) /\ ~ZeroNorm(row.vector)
    /\ f.resp.core = "NonFiniteSimilarityError"

\* C25: a well-formed verification request for an identity with no stored
\* profile ends in an error response without a result (the load is NotFound),
\* and the dashboard takes no verification result from an error response.
C25_NoProfileNeverVerified ==
  [][/\ \A e \in inflight :
          (/\ VerifyRoute(e)
           /\ VerifySchema(e.body).success
           /\ RowsOf(profiles, e.body.contactId.val) = {})
          => \A f \in Fresh :
               /\ f.resp.status # 200
               /\ f.resp.core = "NotFound"
               /\ ~f.resp.result.set
               /\ ~f.resp.result.verified
     /\ \A e \in inflight :
          (VerificationResponse(e) /\ e.resp.status # 200)
          => voiceVerification' = voiceVerification]_vars

\* C25 witness: the dashboard's verification of a contact without a profile
\* was answered with an error.
C25_Witness ==
  \E f \in inflight :
    /\ f.origin = "dashboard"
    /\ f.route = "verify"
    /\ f.stage = "done"
    /\ RowsOf(profiles, f.body.contactId.val) = {}
    /\ f.resp.status = 500
    /\ f.resp.core = "NotFound"

\* C26: after a verification request of the dashboard that fails (error
\* response or network error) no verification result of an earlier request is
\* displayed any more.
C26_FailedVerificationClearsResult ==
  [][\A e \in inflight :
       (\/ VerificationResponse(e) /\ e.resp.status # 200
        \/ FetchFails(e) /\ e.route = "verify")
       => ~voiceVerification'.set]_vars

\* C27: the response of a verification that was issued before the one whose
\* result is displayed does not replace the displayed result: the result
\* finally displayed is the one of the request issued last.
C27_LastIssuedVerificationWins ==
  [][\A e \in inflight :
       (VerificationResponse(e) /\ e.late)
       => voiceVerification' = voiceVerification]_vars

\* C28: the register route writes the store only in the step that follows a
\* passed validation and a passed contact lookup, at most once per request;
\* validation comes first (400 also for an unknown contact), then the lookup
\* (404); a response that is not a success carries no profile.
C28_StoreOnlyAfterBothChecks ==
  [][/\ profiles' # profiles
          => \E e \in inflight :
               /\ RegisterStore(e)
               /\ RegisterSchema(e.body).success
               /\ e.body.contactId.val \in KnownContacts
     /\ \A e \in inflight : RegisterStore(e) => \A f \in Fresh : f.stage = "done"
     /\ \A e \in inflight : RegisterCheck(e) =>
          /\ ~RegisterSchema(e.body).success
               => \A f \in Fresh : f.stage = "done" /\ f.resp.status = 400
          /\ (RegisterSchema(e.body).success
                /\ e.body.contactId.val \notin KnownContacts)
               => \A f \in Fresh : f.stage = "done" /\ f.resp.status = 404
     /\ \A f \in inflight' :
          (f.route = "register" /\ f.resp.status # 200)
          => f.resp.profile = NoProfile]_vars

\* C28 witness: a register request with a malformed body for an unknown
\* contact was answered 400, and the store is empty.
C28_Witness ==
  \E f \in inflight :
    /\ f.route = "register"
    /\ f.stage = "done"
    /\ ~f.body.vector.has
    /\ f.body.contactId.val \notin KnownContacts
    /\ f.resp.status = 400
    /\ f.resp.profile = NoProfile

====
